---- MODULE Spec2Model ----
(***************************************************************************)
(* Identity / Project / Task state management of the productivity app.     *)
(*                                                                         *)
(* The store is seen twice: db is what has been committed, tx is what the  *)
(* request's SQLAlchemy session sees (committed rows plus its own flushed  *)
(* and dirty changes).  session.commit() makes db equal to tx,             *)
(* session.rollback() makes tx equal to db; both expire every loaded       *)
(* object, so a relationship collection is re-read on its next access.     *)
(* loaded holds, per project, the Project.tasks collection the session has *)
(* in memory: a collection that is loaded is NOT re-read by a flush.       *)
(*                                                                         *)
(* Python's None is 0; primary keys start at 1.                            *)
(***************************************************************************)
EXTENDS Integers, Sequences, FiniteSets, TLC

VARIABLES
    catalog,   \* identity_templates rows, in the order the catalog query returns them
    db,        \* committed store
    tx,        \* the session's view of the store
    loaded,    \* per project: the in-memory Project.tasks collection, if loaded
    call,      \* the manager call that has just returned, with its arguments;
               \* op = "none" while the request handler is between two calls
    pre,       \* db and tx as they were when that call started
    result,    \* the envelope that call returned (success, msg, payload keys)
    commits,   \* the stores committed during that call, in order
    requests,  \* concurrent requests, each with its own session: what it was asked,
               \* how far it has come, what its session had loaded (empty
               \* where one request runs at a time)
    cache      \* g.request_cache: the envelopes read_item / read_items have
               \* stored in this request, each under its cache key

vars == <<catalog, db, tx, loaded, call, pre, result, commits, requests, cache>>

None == 0

\* ---------------------------------------------------------------- bounds
MaxTemplates == 2
MaxProfiles == 2
MaxProjects == 1
MaxTasks == 3

\* ------------------------------------------------------- program constants
MinTaskNameLen == 5
MaxTaskNameLen == 100
MinProjectNameLen == 5
MaxProjectNameLen == 100
MaxDescriptionLen == 500

NOT_STARTED == "not_started"
IN_PROGRESS == "in_progress"
COMPLETED == "completed"

\* ------------------------------------------------------- response envelopes
success_res(msg, payload) == [success |-> TRUE, msg |-> msg, payload |-> payload]

error_res(msg) == [success |-> FALSE, msg |-> msg, payload |-> [none |-> None]]

\* ------------------------------------------------------------------ store
EmptyStore ==
    [profiles |-> {}, identities |-> <<>>, projects |-> <<>>, tasks |-> {}]

Unloaded == [is_loaded |-> FALSE, tasks |-> {}]

\* session.commit() / session.rollback(): every object of the session is expired.
ExpireAll(store) == [p \in DOMAIN store.projects |-> Unloaded]

SeqToSet(s) == {s[k] : k \in DOMAIN s}

MaxOf(S) == IF S = {} THEN 0 ELSE CHOOSE m \in S : \A x \in S : x <= m

\* the first element of a non-empty collection read in primary-key order
MinOf(S) == CHOOSE m \in S : \A x \in S : m <= x

IdentityIds(store) == {i.id : i \in SeqToSet(store.identities)}

IdentityById(store, id) == CHOOSE i \in SeqToSet(store.identities) : i.id = id

\* Profile.identities: the profile's rows in insertion order.
IdentitiesOf(store, profile) ==
    SelectSeq(store.identities, LAMBDA i : i.profile_id = profile)

ActiveIds(store, profile) ==
    {i.id : i \in {j \in SeqToSet(store.identities) : j.profile_id = profile /\ j.is_active}}

\* identity.is_active = v on the session's object
SetActive(store, id, v) ==
    [store EXCEPT !.identities =
        [k \in DOMAIN @ |-> IF @[k].id = id THEN [@[k] EXCEPT !.is_active = v] ELSE @[k]]]

\* ------------------------------------------------- ProfileIdentityManager
get_active_identity(store, profile) ==
    IF profile = None THEN error_res("Missing profile...")
    ELSE LET active_list == SelectSeq(IdentitiesOf(store, profile), LAMBDA i : i.is_active)
         IN  IF active_list = <<>> THEN error_res("Active identity not found...")
             ELSE success_res("Identity found...", [active_identity |-> Head(active_list).id])

\* What the model keeps of one manager call: the session's view and the
\* committed store afterwards, the stores committed on the way, the envelope.
Outcome(tx1, db1, committed, res) ==
    [tx |-> tx1, db |-> db1, commits |-> committed, result |-> res, rolled_back |-> FALSE]

\* session.rollback(): the session's view falls back to the committed store.
RolledBack(db1, committed, res) ==
    [tx |-> db1, db |-> db1, commits |-> committed, result |-> res, rolled_back |-> TRUE]

\* Names are numbers: 0 is the empty string, t is the (unique) name of template t,
\* any other number is a name no template has.
TemplateName(template_id) == template_id

initialise_profile_identities_none_active(templates, profile_id, first_id) ==
    [k \in DOMAIN templates |->
        [id |-> first_id + k - 1, profile_id |-> profile_id,
         template_id |-> templates[k], is_active |-> FALSE,
         custom_name |-> TemplateName(templates[k])]]

\* The unsaved list: one identity per template, the first one active.
initialise_profile_identities(templates, profile_id, first_id) ==
    [k \in DOMAIN templates |->
        [id |-> first_id + k - 1, profile_id |-> profile_id,
         template_id |-> templates[k], is_active |-> (k = 1),
         custom_name |-> TemplateName(templates[k])]]

swap_active_identites_two_commits(store, committed, profile, current, new) ==
    IF current = None \/ new = None
    THEN Outcome(store, committed, <<>>, error_res("Identities not given..."))
    ELSE LET s1 == SetActive(store, current, FALSE)
             s2 == SetActive(s1, new, TRUE)
         IN  Outcome(s2, s2, <<s1, s2>>,
                     success_res("Active identities set...", [inactive |-> current, active |-> new]))

swap_active_identites(store, committed, profile, current, new) ==
    IF current = None \/ new = None
    THEN Outcome(store, committed, <<>>, error_res("Identities not given..."))
    ELSE LET \* "if not current": never true here, the guard above has returned
             cur == IF current = None
                    THEN (LET a == get_active_identity(store, profile)
                          IN  IF a.success THEN a.payload.active_identity ELSE None)
                    ELSE current
             s1 == IF cur # None THEN SetActive(store, cur, FALSE) ELSE store
             s2 == SetActive(s1, new, TRUE)
         IN  Outcome(s2, s2, <<s2>>,
                     success_res("Active identities set...", [inactive |-> cur, active |-> new]))

deactivate_identities_keeps_first(store, committed, profile) ==
    IF profile = None
    THEN Outcome(store, committed, <<>>, error_res("Profile not given."))
    ELSE LET s1 == [store EXCEPT !.identities =
                      [k \in DOMAIN @ |->
                          IF @[k].profile_id = profile
                               /\ @[k].id # Head(IdentitiesOf(store, profile)).id
                          THEN [@[k] EXCEPT !.is_active = FALSE] ELSE @[k]]]
         IN  Outcome(s1, s1, <<s1>>, success_res("Identities deactivated.", [none |-> None]))

\* every identity of the profile inactive, committed as one transaction
deactivate_identities(store, committed, profile) ==
    IF profile = None
    THEN Outcome(store, committed, <<>>, error_res("Profile not given."))
    ELSE LET s1 == [store EXCEPT !.identities =
                      [k \in DOMAIN @ |-> IF @[k].profile_id = profile
                                          THEN [@[k] EXCEPT !.is_active = FALSE] ELSE @[k]]]
         IN  Outcome(s1, s1, <<s1>>, success_res("Identities deactivated.", [none |-> None]))

set_identity(store, committed, profile, identity_id) ==
    IF identity_id \notin IdentityIds(store)
    THEN Outcome(store, committed, <<>>, error_res("Identity not found."))
    ELSE LET d == deactivate_identities(store, committed, profile)
         IN  IF ~d.result.success
             THEN Outcome(d.tx, d.db, d.commits, error_res(d.result.msg))
             ELSE LET s2 == SetActive(d.tx, identity_id, TRUE)
                  IN  Outcome(s2, s2, d.commits \o <<s2>>,
                              success_res("Identity set", [active_identity |-> identity_id]))

\* set_identity when the activation commit raises (or the request dies before
\* it): the deactivation is committed, the activation is rolled back.
set_identity_interrupted(store, committed, profile, identity_id) ==
    IF identity_id \notin IdentityIds(store)
    THEN Outcome(store, committed, <<>>, error_res("Identity not found."))
    ELSE LET d == deactivate_identities(store, committed, profile)
         IN  IF ~d.result.success
             THEN Outcome(d.tx, d.db, d.commits, error_res(d.result.msg))
             ELSE RolledBack(d.db, d.commits,
                             error_res("Error setting new active identity. Error: Raised"))

set_default_identity_always_first(store, committed, profile) ==
    IF profile = None
    THEN Outcome(store, committed, <<>>, error_res("Missing profile..."))
    ELSE IF IdentitiesOf(store, profile) = <<>>
         THEN Outcome(store, committed, <<>>, error_res("Profile has no identities to set as default."))
         ELSE LET default == Head(IdentitiesOf(store, profile)).id
                  s1 == SetActive(store, default, TRUE)
              IN  Outcome(s1, s1, <<s1>>,
                          success_res("Default identity set...", [active_identity |-> default]))

set_default_identity(store, committed, profile) ==
    IF profile = None
    THEN Outcome(store, committed, <<>>, error_res("Missing profile..."))
    ELSE LET active_attempt == get_active_identity(store, profile)
         IN  IF active_attempt.success
             THEN Outcome(store, committed, <<>>,
                          success_res("Identity already set...", active_attempt.payload))
             ELSE IF IdentitiesOf(store, profile) = <<>>
                  THEN Outcome(store, committed, <<>>,
                               error_res("Profile has no identities to set as default."))
                  ELSE LET default == Head(IdentitiesOf(store, profile)).id
                           s1 == SetActive(store, default, TRUE)
                       IN  Outcome(s1, s1, <<s1>>,
                                   success_res("Default identity set...", [active_identity |-> default]))

in_identity_map_any_owner(store, profile_id, identity_id) ==
    identity_id \in IdentityIds(store)

\* identity_map: the identities selected by profile_id, keyed by id
in_identity_map(store, profile_id, identity_id) ==
    identity_id \in {i.id : i \in SeqToSet(IdentitiesOf(store, profile_id))}

\* curr_name = identity.custom_name or identity.template.name
EffectiveName(identity) ==
    IF identity.custom_name # 0 THEN identity.custom_name
    ELSE TemplateName(identity.template_id)

name_changed_always(identity, new_name) == TRUE

name_changed(identity, new_name) == ~(new_name = EffectiveName(identity))

\* identity_to_update.custom_name = new_name
SetCustomName(store, id, new_name) ==
    [store EXCEPT !.identities =
        [k \in DOMAIN @ |-> IF @[k].id = id THEN [@[k] EXCEPT !.custom_name = new_name]
                                             ELSE @[k]]]

\* The loop over the submitted entries: the staged store and updated_ids.
RECURSIVE stage_custom_names(_, _, _, _)
stage_custom_names(store, profile_id, form_data, updated_ids) ==
    IF form_data = <<>>
    THEN [tx |-> store, updated |-> updated_ids]
    ELSE LET item == Head(form_data)
         IN  IF ~in_identity_map(store, profile_id, item.identity_id)
             THEN stage_custom_names(store, profile_id, Tail(form_data), updated_ids)
             ELSE IF ~name_changed(IdentityById(store, item.identity_id),
                                   item.identity_custom_name)
             THEN stage_custom_names(store, profile_id, Tail(form_data), updated_ids)
             ELSE stage_custom_names(
                      SetCustomName(store, item.identity_id, item.identity_custom_name),
                      profile_id, Tail(form_data),
                      Append(updated_ids, item.identity_id))

\* form_data: entries [identity_id, identity_custom_name], the name already trimmed.
update_custom_names(store, committed, profile_id, form_data) ==
    LET staged == stage_custom_names(store, profile_id, form_data, <<>>)
    IN  Outcome(staged.tx, staged.tx, <<staged.tx>>,
                success_res("Identities updated successfully...",
                            [updated |-> staged.updated]))

\* ---------------------------------------------------------- BaseManager
\* read_items: an empty result is reported as a failure ("... not found").
read_items(rows) ==
    IF rows # <<>> THEN success_res("found", [items |-> rows]) ELSE error_res("not found")

\* Profile.email is unique; the address of profile p is written p.
EmailOf(profile) == profile

\* cache_key: the model's name and the sorted "field-value" parts of the filter.
cache_key(model, field, value) == [model |-> model, field |-> field, value |-> value]

InCache(cch, key) == \E e \in cch : e.key = key

Cached(cch, key) == (CHOOSE e \in cch : e.key = key).res

\* The store's answer to read_item(Profile, email=...) or read_item(Profile, id=...):
\* select ... one_or_none(), as an envelope.  The item is written as its id.
query_item(store, field, value) ==
    IF value \in store.profiles
    THEN success_res("Profile found", [profile |-> value])
    ELSE error_res("Profile not found")

\* read_item: a cache hit is returned as it is; a successful read is stored.
read_item(store, cch, field, value) ==
    LET key == cache_key("Profile", field, value)
        res == query_item(store, field, value)
    IN  IF InCache(cch, key)
        THEN [result |-> Cached(cch, key), cache |-> cch]
        ELSE [result |-> res,
              cache |-> IF res.success THEN cch \cup {[key |-> key, res |-> res]} ELSE cch]

\* The store's answer to read_items(ProfileIdentity, profile_id=...): the rows as
\* their ids.
query_items(store, profile_id) ==
    LET rows == IdentitiesOf(store, profile_id)
    IN  read_items([k \in DOMAIN rows |-> rows[k].id])

\* read_items with its cache.
read_items_memoized(store, cch, profile_id) ==
    LET key == cache_key("ProfileIdentity", "profile_id", profile_id)
        res == query_items(store, profile_id)
    IN  IF InCache(cch, key)
        THEN [result |-> Cached(cch, key), cache |-> cch]
        ELSE [result |-> res,
              cache |-> IF res.success THEN cch \cup {[key |-> key, res |-> res]} ELSE cch]

\* create_item(ProfileIdentity(profile_id, template_id)): add and commit; a
\* profile_id with no profile is an IntegrityError.
create_item(store, committed, profile_id, template_id) ==
    IF profile_id \notin store.profiles
    THEN RolledBack(committed, <<>>,
                    error_res("Could not create Profile_Identity due to database integrity error"))
    ELSE LET new_id == MaxOf(IdentityIds(store) \cup IdentityIds(committed)) + 1
             s1 == [store EXCEPT !.identities =
                      Append(@, [id |-> new_id, profile_id |-> profile_id,
                                 template_id |-> template_id, is_active |-> FALSE,
                                 custom_name |-> 0])]
         IN  Outcome(s1, s1, <<s1>>,
                     success_res("Identity created", [profile_identity |-> new_id]))

\* session.delete(profile) and its cascades: the profile's identities, its
\* projects and their tasks go with it.
DeleteProfile(store, profile) ==
    [profiles |-> store.profiles \ {profile},
     identities |-> SelectSeq(store.identities, LAMBDA i : i.profile_id # profile),
     projects |-> [q \in {p \in DOMAIN store.projects :
                            store.projects[p].owner_id # profile} |-> store.projects[q]],
     tasks |-> {t \in store.tasks :
                   /\ t.project_id \in DOMAIN store.projects
                   /\ store.projects[t.project_id].owner_id # profile}]

\* delete_item(profile): delete and commit; deleting an instance that is not
\* persistent raises, and the except branch rolls back.
delete_item(store, committed, profile) ==
    IF profile \notin store.profiles
    THEN RolledBack(committed, <<>>,
                    error_res("Failed to delete Profile due to an unknown database error"))
    ELSE LET s1 == DeleteProfile(store, profile)
         IN  Outcome(s1, s1, <<s1>>, success_res("Profile deleted", [none |-> None]))

\* An exception that leaves the method: the caller gets no envelope.
Raised(exception) == [exception |-> exception]

IsEnvelope(r) == DOMAIN r = {"success", "msg", "payload"}

\* update_items: the statement is built, outside the try block, as
\* update(model.where_by(...).values(...)); a model class has no where_by.
update_items(store, committed, filter_given, values_given) ==
    IF ~filter_given \/ ~values_given
    THEN Outcome(store, committed, <<>>, error_res("Missing filter and / or update criteria"))
    ELSE Outcome(store, committed, <<>>, Raised("AttributeError"))

\* delete_items: delete(model).where_by(...), outside the try block; a Delete
\* statement has where, filter and filter_by, no where_by.
delete_items(store, committed, filter_given) ==
    IF ~filter_given
    THEN Outcome(store, committed, <<>>, error_res("Missing filter criteria"))
    ELSE Outcome(store, committed, <<>>, Raised("AttributeError"))

\* --------------------------------------------------------- ProfileManager
\* valid: _validate_and_extract_data accepted the form data.
\* theme_name_given: the caller passed theme_name (sanitised_data.pop raises KeyError otherwise).
\* commit_ok: the store accepted the final commit.
create_profile(store, committed, templates, valid, theme_name_given, commit_ok) ==
    IF ~valid
    THEN Outcome(store, committed, <<>>, error_res("validation"))
    ELSE IF ~theme_name_given
         THEN \* KeyError before anything is staged: except -> rollback
              RolledBack(committed, <<>>, error_res("Error creating profile. Error Raised"))
         ELSE LET new_profile == MaxOf(store.profiles \cup committed.profiles) + 1
                  \* session.add(new_profile); session.flush()
                  staged == [store EXCEPT !.profiles = @ \cup {new_profile}]
                  template_res == read_items(templates)
              IN  IF ~template_res.success
                  THEN \* initialise_profile_identities failed: returns, no rollback
                       Outcome(staged, committed, <<>>, error_res(template_res.msg))
                  ELSE LET identities_list ==
                               initialise_profile_identities(
                                   template_res.payload.items, new_profile,
                                   MaxOf(IdentityIds(store) \cup IdentityIds(committed)) + 1)
                           s2 == [staged EXCEPT !.identities = @ \o identities_list]
                       IN  IF commit_ok
                           THEN Outcome(s2, s2, <<s2>>,
                                        success_res("Profile created...", [profile |-> new_profile]))
                           ELSE RolledBack(committed, <<>>,
                                           error_res("Error creating profile. Error Raised"))

\* delete_account: delete and commit, then get_profile_by_email(email) decides
\* the envelope; "still exists" raises ValueError, and the except branch rolls
\* back the (already committed) session.
delete_account(store, committed, cch, profile) ==
    IF profile = None
    THEN [out |-> Outcome(store, committed, <<>>, error_res("No profile given.")),
          cache |-> cch]
    ELSE LET s1 == DeleteProfile(store, profile)
             check_res == read_item(s1, cch, "email", EmailOf(profile))
         IN  IF check_res.result.success
             THEN [out |-> RolledBack(s1, <<s1>>,
                              error_res("Error deleting profile. Error: Account still exists after deletion attempt!")),
                   cache |-> check_res.cache]
             ELSE [out |-> Outcome(s1, s1, <<s1>>,
                              success_res("Profile successfully deleted.", [none |-> None])),
                   cache |-> check_res.cache]

\* --------------------------------------------------------- ProjectManager
TaskIds(store) == {t.id : t \in store.tasks}

TaskById(store, id) == CHOOSE t \in store.tasks : t.id = id

\* The rows a query for the project's tasks returns.
TasksOf(store, project_id) == {t \in store.tasks : t.project_id = project_id}

\* project.tasks: the collection in memory when it is loaded (its members are the
\* session's objects objs, a deleted one included), else a read of the rows
\* the session has flushed.
ProjectTasks(store, ld, objs, project_id) ==
    IF ld[project_id].is_loaded
    THEN {t \in objs : t.id \in ld[project_id].tasks}
    ELSE TasksOf(store, project_id)

StatusOf_any_complete(tasks) ==
    IF Cardinality(tasks) = 0 THEN NOT_STARTED
    ELSE IF \E t \in tasks : t.is_complete THEN COMPLETED
    ELSE IN_PROGRESS

\* The status rule of update_project_status.
StatusOf(tasks) ==
    IF Cardinality(tasks) = 0 THEN NOT_STARTED
    ELSE IF \A t \in tasks : t.is_complete THEN COMPLETED
    ELSE IN_PROGRESS

\* Stages the recomputed status; never commits.
update_project_status(store, ld, objs, project_id) ==
    IF project_id = None
    THEN [res |-> error_res("Project not given..."), tx |-> store]
    ELSE IF project_id \notin DOMAIN store.projects
         THEN [res |-> error_res("Project not found..."), tx |-> store]
         ELSE [res |-> success_res("Project status updated!", [none |-> None]),
               tx |-> [store EXCEPT !.projects[project_id].status =
                          StatusOf(ProjectTasks(store, ld, objs, project_id))]]

stage_project_status_commits(store, committed, ld, objs, project_id) ==
    LET u == update_project_status(store, ld, objs, project_id)
    IN  IF u.res.success THEN Outcome(u.tx, u.tx, <<u.tx>>, u.res)
        ELSE Outcome(u.tx, committed, <<>>, u.res)

\* update_project_status as one call: session.add(project) and the envelope; no
\* commit, and no rollback in the except branch.
stage_project_status(store, committed, ld, objs, project_id) ==
    LET u == update_project_status(store, ld, objs, project_id)
    IN  Outcome(u.tx, committed, <<>>, u.res)

\* identity.projects: the ids of the rows whose identity_id is the identity's
IdentityProjects(store, identity) ==
    {p \in DOMAIN store.projects : store.projects[p].identity_id = identity}

ActiveProjects(store, identity) ==
    {p \in IdentityProjects(store, identity) : store.projects[p].is_active}

\* project.is_active = v on the session's object
SetProjectActive(store, project_id, v) ==
    [store EXCEPT !.projects[project_id].is_active = v]

\* Project.time_left; dates are day numbers, today is day 0.
time_left(project) ==
    IF project.status = COMPLETED THEN 0
    ELSE IF project.end_date < 0 THEN 0
    ELSE project.end_date

\* create_project: "5 < len(name) < 100"
project_name_ok(name_len) ==
    MinProjectNameLen < name_len /\ name_len < MaxProjectNameLen

project_dates_ok_strict(start_date, end_date) == (end_date - start_date) > 0

\* create_project: number_of_days = (end_date - start_date).days, rejected when < 0
project_dates_ok(start_date, end_date) == ~((end_date - start_date) < 0)

\* name_len, desc_len: lengths of the trimmed name and description (0: absent or empty);
\* status: the status argument (NOT_STARTED when the caller supplies none);
\* commit_ok: the store accepted the commit.
create_project(store, committed, name_len, desc_len, identity_id, owner_id, start_date, end_date, status, commit_ok) ==
    IF identity_id = None
    THEN Outcome(store, committed, <<>>,
                 error_res("Orphaned project detected. Not attached to Identity..."))
    ELSE IF owner_id = None
    THEN Outcome(store, committed, <<>>,
                 error_res("Orphaned project detected. Not attached to Profile..."))
    ELSE IF name_len = 0
    THEN Outcome(store, committed, <<>>, error_res("Invalid project name..."))
    ELSE IF ~project_name_ok(name_len)
    THEN Outcome(store, committed, <<>>,
                 error_res("Project name must be between 5 and 100 characters long..."))
    ELSE IF desc_len > MaxDescriptionLen
    THEN Outcome(store, committed, <<>>,
                 error_res("Description too long. Must be less than 500 characters..."))
    ELSE IF ~project_dates_ok(start_date, end_date)
    THEN Outcome(store, committed, <<>>, error_res("End date less than start date..."))
    ELSE IF ~commit_ok
    THEN RolledBack(committed, <<>>, error_res("Error creating project. Error Raised"))
    ELSE LET new_id == MaxOf(DOMAIN store.projects \cup DOMAIN committed.projects) + 1
             project == [identity_id |-> identity_id, owner_id |-> owner_id,
                         is_active |-> FALSE, status |-> status,
                         name_len |-> name_len,
                         start_date |-> start_date, end_date |-> end_date]
             s1 == [store EXCEPT !.projects =
                      [q \in DOMAIN @ \cup {new_id} |-> IF q = new_id THEN project ELSE @[q]]]
         IN  Outcome(s1, s1, <<s1>>, success_res("New Project created!", [none |-> None]))

\* The project and, by the cascade of Project.tasks, its tasks are deleted.
delete_project(store, committed, project_id) ==
    IF project_id = None
    THEN Outcome(store, committed, <<>>, error_res("Project ID not given..."))
    ELSE IF project_id \notin DOMAIN store.projects
    THEN Outcome(store, committed, <<>>, error_res("Project not found..."))
    ELSE LET s1 == [store EXCEPT
                      !.projects = [q \in DOMAIN @ \ {project_id} |-> @[q]],
                      !.tasks = {t \in @ : t.project_id # project_id}]
         IN  Outcome(s1, s1, <<s1>>, success_res("Project deleted...", [none |-> None]))

\* An argument of edit_project / edit_task that is a date string.
NoDate == [kind |-> "none"]

BadDate == [kind |-> "bad"]

DateStr(day) == [kind |-> "date", day |-> day]

\* datetime.strptime(value, '%Y-%m-%d').date(), where it does not raise
strptime(value, otherwise) == IF value.kind = "date" THEN value.day ELSE otherwise

edit_project_applies_name_first(store, committed, project_id, name_len, start_date, end_date) ==
    IF project_id = None
    THEN Outcome(store, committed, <<>>, error_res("Project ID not given..."))
    ELSE IF project_id \notin DOMAIN store.projects
    THEN Outcome(store, committed, <<>>, error_res("Project not found..."))
    ELSE LET project == store.projects[project_id]
             named == IF name_len # 0
                      THEN [store EXCEPT !.projects[project_id].name_len = name_len]
                      ELSE store
             new_start == strptime(start_date, project.start_date)
             new_end == strptime(end_date, project.end_date)
         IN  IF name_len # 0 /\ name_len # project.name_len
                  /\ ~(MinProjectNameLen <= name_len /\ name_len <= MaxProjectNameLen)
             THEN Outcome(named, committed, <<>>,
                          error_res("Invalid project name. Must be between 5 and 100 characters"))
             ELSE IF start_date.kind = "bad" \/ end_date.kind = "bad"
             THEN Outcome(named, committed, <<>>, error_res("Invalid data provided"))
             ELSE IF new_end < new_start
             THEN Outcome(named, committed, <<>>, error_res("End date is before start date..."))
             ELSE IF (name_len = 0 \/ name_len = project.name_len)
                       /\ start_date.kind = "none" /\ end_date.kind = "none"
             THEN Outcome(named, committed, <<>>, error_res("No valid data to update..."))
             ELSE LET s1 == [named EXCEPT !.projects[project_id].start_date = new_start,
                                          !.projects[project_id].end_date = new_end]
                  IN  Outcome(s1, s1, <<s1>>, success_res("Project updated!", [none |-> None]))

\* name_len: 0 when no name (or an empty one) is supplied.  Names are told apart
\* by their length.  The description, which has no rule, is not supplied.
edit_project(store, committed, project_id, name_len, start_date, end_date) ==
    IF project_id = None
    THEN Outcome(store, committed, <<>>, error_res("Project ID not given..."))
    ELSE IF project_id \notin DOMAIN store.projects
    THEN Outcome(store, committed, <<>>, error_res("Project not found..."))
    ELSE LET project == store.projects[project_id]
             name_changes == name_len # 0 /\ name_len # project.name_len
             new_start == strptime(start_date, project.start_date)
             new_end == strptime(end_date, project.end_date)
         IN  IF name_changes
                  /\ ~(MinProjectNameLen <= name_len /\ name_len <= MaxProjectNameLen)
             THEN Outcome(store, committed, <<>>,
                          error_res("Invalid project name. Must be between 5 and 100 characters"))
             ELSE IF start_date.kind = "bad" \/ end_date.kind = "bad"
             THEN Outcome(store, committed, <<>>, error_res("Invalid data provided"))
             ELSE IF new_end < new_start
             THEN Outcome(store, committed, <<>>, error_res("End date is before start date..."))
             ELSE IF ~name_changes /\ start_date.kind = "none" /\ end_date.kind = "none"
             THEN Outcome(store, committed, <<>>, error_res("No valid data to update..."))
             ELSE LET s1 == [store EXCEPT
                               !.projects[project_id].name_len =
                                   IF name_changes THEN name_len ELSE @,
                               !.projects[project_id].start_date = new_start,
                               !.projects[project_id].end_date = new_end]
                  IN  Outcome(s1, s1, <<s1>>, success_res("Project updated!", [none |-> None]))

\* Every project of the identity inactive; commits when the identity has projects.
deactivate_projects(store, committed, identity) ==
    IF identity = None
    THEN Outcome(store, committed, <<>>, error_res("Identity not given..."))
    ELSE IF IdentityProjects(store, identity) = {}
    THEN Outcome(store, committed, <<>>, success_res("Projects deactivated!", [none |-> None]))
    ELSE LET s1 == [store EXCEPT !.projects =
                      [q \in DOMAIN @ |-> IF @[q].identity_id = identity
                                          THEN [@[q] EXCEPT !.is_active = FALSE] ELSE @[q]]]
         IN  Outcome(s1, s1, <<s1>>, success_res("Projects deactivated!", [none |-> None]))

DefaultProject_soonest_end(store, identity) ==
    CHOOSE p \in IdentityProjects(store, identity) :
        \A q \in IdentityProjects(store, identity) :
            \/ store.projects[p].end_date < store.projects[q].end_date
            \/ (store.projects[p].end_date = store.projects[q].end_date /\ p <= q)

\* sorted(projects, key=time_left)[0]; the sort is stable and the collection is
\* read in primary-key order, so among equals the lowest id comes first.
DefaultProject(store, identity) ==
    CHOOSE p \in IdentityProjects(store, identity) :
        \A q \in IdentityProjects(store, identity) :
            \/ time_left(store.projects[p]) < time_left(store.projects[q])
            \/ (time_left(store.projects[p]) = time_left(store.projects[q]) /\ p <= q)

set_default_project(store, committed, identity) ==
    IF identity = None
    THEN Outcome(store, committed, <<>>, error_res("Identity not given..."))
    ELSE IF IdentityProjects(store, identity) = {}
    THEN Outcome(store, committed, <<>>, error_res("No projects found..."))
    ELSE LET default_project == DefaultProject(store, identity)
             s1 == SetProjectActive(store, default_project, TRUE)
         IN  Outcome(s1, s1, <<s1>>,
                     success_res("Default project set", [active_project |-> default_project]))

get_active_project_always_default(store, committed, identity) ==
    IF identity = None
    THEN Outcome(store, committed, <<>>, error_res("Identity not given..."))
    ELSE IF IdentityProjects(store, identity) = {}
    THEN Outcome(store, committed, <<>>,
                 success_res("No projects found!", [active_project |-> None]))
    ELSE LET d == set_default_project(store, committed, identity)
         IN  IF ~d.result.success
             THEN Outcome(d.tx, d.db, d.commits, error_res("Failed to get active project..."))
             ELSE Outcome(d.tx, d.db, d.commits,
                          success_res("Project found!", d.result.payload))

get_active_project(store, committed, identity) ==
    IF identity = None
    THEN Outcome(store, committed, <<>>, error_res("Identity not given..."))
    ELSE IF IdentityProjects(store, identity) = {}
    THEN Outcome(store, committed, <<>>,
                 success_res("No projects found!", [active_project |-> None]))
    ELSE IF ActiveProjects(store, identity) = {}
    THEN LET d == set_default_project(store, committed, identity)
         IN  IF ~d.result.success
             THEN Outcome(d.tx, d.db, d.commits, error_res("Failed to get active project..."))
             ELSE Outcome(d.tx, d.db, d.commits,
                          success_res("Project found!", d.result.payload))
    ELSE Outcome(store, committed, <<>>,
                 success_res("Project found!",
                             [active_project |-> MinOf(ActiveProjects(store, identity))]))

set_active_project(store, committed, identity, project_id) ==
    IF project_id = None
    THEN Outcome(store, committed, <<>>, error_res("Project not given..."))
    ELSE LET d == deactivate_projects(store, committed, identity)
         IN  IF ~d.result.success
             THEN Outcome(d.tx, d.db, d.commits, error_res("Error setting active project...."))
             ELSE IF project_id \notin DOMAIN d.tx.projects
             THEN Outcome(d.tx, d.db, d.commits, error_res("Project not found..."))
             ELSE LET s2 == SetProjectActive(d.tx, project_id, TRUE)
                  IN  Outcome(s2, s2, d.commits \o <<s2>>,
                              success_res("Default project set", [active_project |-> project_id]))

\* ------------------------------------------------------------ TaskManager
abort_task_transaction_no_rollback(staged, committed, msg) ==
    Outcome(staged, committed, <<>>, error_res(msg))

\* "except Exception: self._session.rollback(); return error_res(...)"
abort_task_transaction(staged, committed, msg) ==
    RolledBack(committed, <<>>, error_res(msg))

\* name_len: length of the trimmed name; due_offset: due_date - today in days;
\* fk_enforced: the store checks tasks.project_id on flush.
create_task(store, committed, ld, name_len, project_id, due_offset, fk_enforced) ==
    IF name_len = 0
    THEN Outcome(store, committed, <<>>, error_res("Task name not given..."))
    ELSE IF ~(MinTaskNameLen < name_len /\ name_len < MaxTaskNameLen)
    THEN Outcome(store, committed, <<>>, error_res("Invalid task name not given..."))
    ELSE IF project_id = None
    THEN Outcome(store, committed, <<>>, error_res("Project id not given..."))
    ELSE IF due_offset < 0
    THEN Outcome(store, committed, <<>>, error_res("Task is already overdue..."))
    ELSE LET task == [id |-> MaxOf(TaskIds(store) \cup TaskIds(committed)) + 1,
                      project_id |-> project_id, is_complete |-> FALSE,
                      name_len |-> name_len, due_date |-> due_offset]
             \* session.add(task); session.flush()
             staged == [store EXCEPT !.tasks = @ \cup {task}]
         IN  IF project_id \notin DOMAIN store.projects /\ fk_enforced
             THEN abort_task_transaction(staged, committed, "Error creating task. IntegrityError")
             ELSE LET u == update_project_status(staged, ld, staged.tasks, project_id)
                  IN  IF ~u.res.success
                      THEN abort_task_transaction(u.tx, committed, "Error creating task. Error updating project.")
                      ELSE Outcome(u.tx, u.tx, <<u.tx>>, success_res("Task created!", [none |-> None]))

delete_task(store, committed, ld, task_id) ==
    IF task_id = None
    THEN Outcome(store, committed, <<>>, error_res("Task ID not given..."))
    ELSE IF task_id \notin TaskIds(store)
    THEN Outcome(store, committed, <<>>, error_res("Task not found..."))
    ELSE LET task == TaskById(store, task_id)
             \* session.delete(task); session.flush()
             staged == [store EXCEPT !.tasks = @ \ {task}]
             u == update_project_status(staged, ld, store.tasks, task.project_id)
         IN  IF ~u.res.success
             THEN abort_task_transaction(u.tx, committed, "Error deleting task. Error updating projects")
             ELSE Outcome(u.tx, u.tx, <<u.tx>>, success_res("Task deleted...", [none |-> None]))

update_task_status(store, committed, ld, task_id) ==
    IF task_id = None
    THEN Outcome(store, committed, <<>>, error_res("Task not given..."))
    ELSE IF task_id \notin TaskIds(store)
    THEN Outcome(store, committed, <<>>, error_res("Task not found..."))
    ELSE LET task == TaskById(store, task_id)
             toggled == [task EXCEPT !.is_complete = ~task.is_complete]
             \* session.add(task); session.flush()
             staged == [store EXCEPT !.tasks = (@ \ {task}) \cup {toggled}]
             u == update_project_status(staged, ld, staged.tasks, task.project_id)
         IN  IF ~u.res.success
             THEN abort_task_transaction(u.tx, committed, "Error updating task status. Error updating projects")
             ELSE Outcome(u.tx, u.tx, <<u.tx>>, success_res("Task updated!", [none |-> None]))

\* name_len: 0 when no name (or an empty one) is supplied; due_date: a date string.
edit_task(store, committed, task_id, name_len, due_date) ==
    IF task_id = None
    THEN Outcome(store, committed, <<>>, error_res("No task id given..."))
    ELSE IF task_id \notin TaskIds(store)
    THEN Outcome(store, committed, <<>>, error_res("Task not found..."))
    ELSE LET task == TaskById(store, task_id)
             edited == [task EXCEPT !.name_len = IF name_len # 0 THEN name_len ELSE @,
                                    !.due_date = strptime(due_date, @)]
         IN  IF name_len # 0 /\ ~(MinTaskNameLen < name_len /\ name_len < MaxTaskNameLen)
             THEN Outcome(store, committed, <<>>,
                          error_res("Invalid task name. Must be between 5 and 100 characters."))
             ELSE IF due_date.kind = "bad"
             THEN Outcome(store, committed, <<>>, error_res("Invalid data provided"))
             ELSE IF name_len = 0 /\ due_date.kind = "none"
             THEN Outcome(store, committed, <<>>, error_res("No valid data to update..."))
             ELSE LET s1 == [store EXCEPT !.tasks = (@ \ {task}) \cup {edited}]
                  IN  Outcome(s1, s1, <<s1>>, success_res("Task updated!", [none |-> None]))

\* ----------------------------------------------------------------- actions
\* One manager call: its recorded arguments and its outcome.
Do(c, out) ==
    /\ call.op = "none"
    /\ call' = c
    /\ pre' = [db |-> db, tx |-> tx]
    /\ tx' = out.tx
    /\ db' = out.db
    /\ commits' = out.commits
    /\ result' = out.result
    /\ loaded' = IF out.commits # <<>> \/ out.rolled_back
                 THEN ExpireAll(out.tx) ELSE loaded
    /\ UNCHANGED <<catalog, requests, cache>>

ProfileArgs == tx.profiles \cup {None}

IdentityArgs == IdentityIds(tx) \cup {None}

CreateProfile ==
    \E valid \in BOOLEAN, theme_name_given \in BOOLEAN, commit_ok \in BOOLEAN :
        /\ Cardinality(tx.profiles \cup db.profiles) < MaxProfiles
        /\ Do([op |-> "create_profile", valid |-> valid,
               theme_name_given |-> theme_name_given, commit_ok |-> commit_ok],
              create_profile(tx, db, catalog, valid, theme_name_given, commit_ok))

SwapActiveIdentites ==
    \E profile \in ProfileArgs, current \in IdentityArgs, new \in IdentityArgs :
        Do([op |-> "swap_active_identites", profile |-> profile,
            current |-> current, new |-> new],
           swap_active_identites(tx, db, profile, current, new))

SetIdentity ==
    \E profile \in ProfileArgs, identity_id \in IdentityIds(tx) \cup {MaxOf(IdentityIds(tx)) + 1} :
        Do([op |-> "set_identity", profile |-> profile, identity_id |-> identity_id],
           set_identity(tx, db, profile, identity_id))

SetIdentityInterrupted ==
    \E profile \in ProfileArgs, identity_id \in IdentityIds(tx) \cup {MaxOf(IdentityIds(tx)) + 1} :
        Do([op |-> "set_identity_interrupted", profile |-> profile,
            identity_id |-> identity_id],
           set_identity_interrupted(tx, db, profile, identity_id))

SetDefaultIdentity ==
    \E profile \in ProfileArgs :
        Do([op |-> "set_default_identity", profile |-> profile],
           set_default_identity(tx, db, profile))

\* The request ends: its session is removed, uncommitted work is rolled back;
\* g, and with it the request cache, is gone.
EndRequest ==
    /\ call.op = "none"
    /\ tx' = db
    /\ loaded' = ExpireAll(db)
    /\ cache' = {}
    /\ UNCHANGED <<catalog, db, call, pre, result, commits, requests>>

NoCall == [op |-> "none"]

NoResult == success_res("", [none |-> None])

\* The handler has read the envelope and goes on.
Return ==
    /\ call.op # "none"
    /\ call' = NoCall
    /\ pre' = [db |-> EmptyStore, tx |-> EmptyStore]
    /\ result' = NoResult
    /\ commits' = <<>>
    /\ UNCHANGED <<catalog, db, tx, loaded, requests, cache>>

ProjectArgs == DOMAIN tx.projects \cup {None, MaxOf(DOMAIN tx.projects) + 1}

TaskArgs == TaskIds(tx) \cup {None, MaxOf(TaskIds(tx)) + 1}

TaskNameLens == {0, MinTaskNameLen, MinTaskNameLen + 1}

DueOffsets == {-1, 0}

\* get_project_by_id: session.get(Project, id).  A project that is not yet in the
\* session is read with its tasks (lazy="selectin"); one that is, is returned as it is.
GetProjectById ==
    \E project_id \in ProjectArgs :
        /\ call.op = "none"
        /\ call' = [op |-> "get_project_by_id", project_id |-> project_id]
        /\ pre' = [db |-> db, tx |-> tx]
        /\ loaded' = IF project_id \in DOMAIN tx.projects /\ ~loaded[project_id].is_loaded
                     THEN [loaded EXCEPT ![project_id] =
                              [is_loaded |-> TRUE,
                               tasks |-> {t.id : t \in TasksOf(tx, project_id)}]]
                     ELSE loaded
        /\ result' = IF project_id \in DOMAIN tx.projects
                     THEN success_res("", [project |-> project_id])
                     ELSE error_res("")
        /\ commits' = <<>>
        /\ UNCHANGED <<catalog, db, tx, requests, cache>>

CreateTask ==
    \E name_len \in TaskNameLens, project_id \in ProjectArgs,
       due_offset \in DueOffsets, fk_enforced \in BOOLEAN :
        /\ MaxOf(TaskIds(tx) \cup TaskIds(db)) < MaxTasks
        /\ Do([op |-> "create_task", name_len |-> name_len, project_id |-> project_id,
               due_offset |-> due_offset, fk_enforced |-> fk_enforced,
               was_loaded |-> project_id \in DOMAIN loaded /\ loaded[project_id].is_loaded],
              create_task(tx, db, loaded, name_len, project_id, due_offset, fk_enforced))

DeleteTask ==
    \E task_id \in TaskArgs :
        Do([op |-> "delete_task", task_id |-> task_id],
           delete_task(tx, db, loaded, task_id))

UpdateTaskStatus ==
    \E task_id \in TaskArgs :
        Do([op |-> "update_task_status", task_id |-> task_id],
           update_task_status(tx, db, loaded, task_id))

\* ------------------------------------------------------ project actions
MaxProjectId == 2

ProjectNameLens ==
    {0, MinProjectNameLen - 1, MinProjectNameLen, MinProjectNameLen + 1,
     MaxProjectNameLen, MaxProjectNameLen + 1}

DescriptionLens == {0, MaxDescriptionLen + 1}

\* end_date of a project that starts today
EndDates == {-1, 0, 1}

\* create_project called as the projects handler calls it, without a status.
CreateProject ==
    \E name_len \in ProjectNameLens, desc_len \in DescriptionLens,
       identity_id \in IdentityArgs, owner_id \in ProfileArgs,
       end_date \in EndDates, commit_ok \in BOOLEAN :
        /\ MaxOf(DOMAIN tx.projects \cup DOMAIN db.projects) < MaxProjectId
        /\ Do([op |-> "create_project", name_len |-> name_len, desc_len |-> desc_len,
               identity_id |-> identity_id, owner_id |-> owner_id,
               start_date |-> 0, end_date |-> end_date, status |-> NOT_STARTED,
               commit_ok |-> commit_ok],
              create_project(tx, db, name_len, desc_len, identity_id, owner_id,
                             0, end_date, NOT_STARTED, commit_ok))

\* The status argument: the three values of the Status enum.
StatusArgs == {NOT_STARTED, IN_PROGRESS, COMPLETED}

\* create_project called with a status argument and otherwise valid data.
CreateProjectWithStatus ==
    \E name_len \in {MinProjectNameLen, MinProjectNameLen + 1}, identity_id \in IdentityIds(tx),
       owner_id \in tx.profiles, status \in StatusArgs :
        /\ MaxOf(DOMAIN tx.projects \cup DOMAIN db.projects) < MaxProjectId
        /\ Do([op |-> "create_project", name_len |-> name_len, desc_len |-> 0,
               identity_id |-> identity_id, owner_id |-> owner_id,
               start_date |-> 0, end_date |-> 1, status |-> status, commit_ok |-> TRUE],
              create_project(tx, db, name_len, 0, identity_id, owner_id,
                             0, 1, status, TRUE))

\* edit_project called with a name only.
EditProjectName ==
    \E project_id \in ProjectArgs, name_len \in ProjectNameLens :
        Do([op |-> "edit_project", project_id |-> project_id, name_len |-> name_len,
            start_date |-> NoDate, end_date |-> NoDate],
           edit_project(tx, db, project_id, name_len, NoDate, NoDate))

DeleteProject ==
    \E project_id \in ProjectArgs :
        Do([op |-> "delete_project", project_id |-> project_id],
           delete_project(tx, db, project_id))

EditNameLens == {0, MinProjectNameLen - 1, MinProjectNameLen + 2}

EditStartDates == {NoDate, BadDate}

EditEndDates == {NoDate, DateStr(-1), DateStr(0)}

EditProject ==
    \E project_id \in ProjectArgs, name_len \in EditNameLens,
       start_date \in EditStartDates, end_date \in EditEndDates :
        Do([op |-> "edit_project", project_id |-> project_id, name_len |-> name_len,
            start_date |-> start_date, end_date |-> end_date],
           edit_project(tx, db, project_id, name_len, start_date, end_date))

DeactivateProjects ==
    \E identity \in IdentityArgs :
        Do([op |-> "deactivate_projects", identity |-> identity],
           deactivate_projects(tx, db, identity))

SetDefaultProject ==
    \E identity \in IdentityArgs :
        Do([op |-> "set_default_project", identity |-> identity],
           set_default_project(tx, db, identity))

GetActiveProject ==
    \E identity \in IdentityArgs :
        Do([op |-> "get_active_project", identity |-> identity],
           get_active_project(tx, db, identity))

SetActiveProject ==
    \E identity \in IdentityArgs, project_id \in ProjectArgs :
        Do([op |-> "set_active_project", identity |-> identity, project_id |-> project_id],
           set_active_project(tx, db, identity, project_id))

UpdateItems ==
    \E filter_given \in BOOLEAN, values_given \in BOOLEAN :
        Do([op |-> "update_items", filter_given |-> filter_given,
            values_given |-> values_given],
           update_items(tx, db, filter_given, values_given))

DeleteItems ==
    \E filter_given \in BOOLEAN :
        Do([op |-> "delete_items", filter_given |-> filter_given],
           delete_items(tx, db, filter_given))

DueDateArgs == {NoDate, BadDate, DateStr(1)}

EditTask ==
    \E task_id \in TaskArgs, name_len \in {0, MinTaskNameLen, MinTaskNameLen + 1},
       due_date \in DueDateArgs :
        Do([op |-> "edit_task", task_id |-> task_id, name_len |-> name_len,
            due_date |-> due_date],
           edit_task(tx, db, task_id, name_len, due_date))

\* A registered profile with two identities and no project yet.
RegisteredStore ==
    [profiles |-> {1},
     identities |-> initialise_profile_identities(<<1, 2>>, 1, 1),
     projects |-> <<>>,
     tasks |-> {}]

InitProjects ==
    /\ catalog = <<1, 2>>
    /\ db = RegisteredStore
    /\ tx = RegisteredStore
    /\ loaded = ExpireAll(RegisteredStore)
    /\ call = NoCall
    /\ pre = [db |-> EmptyStore, tx |-> EmptyStore]
    /\ result = NoResult
    /\ commits = <<>>
    /\ requests = <<>>
    /\ cache = {}

NextProjects ==
    \/ CreateProject
    \/ DeleteProject
    \/ SetActiveProject
    \/ SetDefaultProject
    \/ GetActiveProject
    \/ DeactivateProjects
    \/ UpdateItems
    \/ DeleteItems
    \/ EndRequest
    \/ Return

SpecProjects == InitProjects /\ [][NextProjects]_vars

\* ------------------------------------------------------- custom names
MaxBatch == 2

\* The empty string, the name of template 1, a name no template has.
SubmittedNames == {0, TemplateName(1), MaxTemplates + 2}

FormEntries ==
    [identity_id : IdentityIds(tx), identity_custom_name : SubmittedNames]

FormData == UNION {[1..n -> FormEntries] : n \in 0..MaxBatch}

UpdateCustomNames ==
    \E profile_id \in tx.profiles, form_data \in FormData :
        Do([op |-> "update_custom_names", profile_id |-> profile_id,
            form_data |-> form_data],
           update_custom_names(tx, db, profile_id, form_data))

\* Two registered profiles: the first registered when the catalog held one
\* template, the second after a second template was added.
TwoProfilesStore ==
    [profiles |-> {1, 2},
     identities |-> initialise_profile_identities(<<1>>, 1, 1)
                        \o initialise_profile_identities(<<1, 2>>, 2, 2),
     projects |-> <<>>,
     tasks |-> {}]

InitNames ==
    /\ catalog = <<1, 2>>
    /\ db = TwoProfilesStore
    /\ tx = TwoProfilesStore
    /\ loaded = ExpireAll(TwoProfilesStore)
    /\ call = NoCall
    /\ pre = [db |-> EmptyStore, tx |-> EmptyStore]
    /\ result = NoResult
    /\ commits = <<>>
    /\ requests = <<>>
    /\ cache = {}

NextNames ==
    \/ UpdateCustomNames
    \/ EndRequest
    \/ Return

SpecNames == InitNames /\ [][NextNames]_vars

\* A registered profile with one identity and its projects, none with a task yet.
SeededStore ==
    [profiles |-> {1},
     identities |-> initialise_profile_identities(<<1>>, 1, 1),
     projects |-> [p \in 1..MaxProjects |->
                     [identity_id |-> 1, owner_id |-> 1, is_active |-> FALSE,
                      status |-> NOT_STARTED, name_len |-> MinProjectNameLen + 1,
                      start_date |-> 0, end_date |-> 0]],
     tasks |-> {}]

InitTasks ==
    /\ catalog = <<1>>
    /\ db = SeededStore
    /\ tx = SeededStore
    /\ loaded = ExpireAll(SeededStore)
    /\ call = NoCall
    /\ pre = [db |-> EmptyStore, tx |-> EmptyStore]
    /\ result = NoResult
    /\ commits = <<>>
    /\ requests = <<>>
    /\ cache = {}

NextTasks ==
    \/ GetProjectById
    \/ CreateTask
    \/ DeleteTask
    \/ UpdateTaskStatus
    \/ EndRequest
    \/ Return

SpecTasks == InitTasks /\ [][NextTasks]_vars

\* The seeded store with one task left in project 1: create_task has been called
\* for every task id but the last, and the earlier tasks have been deleted.
EditStore ==
    LET created == {[id |-> MaxTasks - 1, project_id |-> 1, is_complete |-> FALSE,
                     name_len |-> MinTaskNameLen + 1, due_date |-> 0]}
    IN  [SeededStore EXCEPT !.tasks = created,
                            !.projects[1].status = StatusOf(created)]

InitEdit ==
    /\ catalog = <<1>>
    /\ db = EditStore
    /\ tx = EditStore
    /\ loaded = ExpireAll(EditStore)
    /\ call = NoCall
    /\ pre = [db |-> EmptyStore, tx |-> EmptyStore]
    /\ result = NoResult
    /\ commits = <<>>
    /\ requests = <<>>
    /\ cache = {}

\* Creating and editing projects and tasks.
NextEdit ==
    \/ CreateProject
    \/ EditProject
    \/ CreateTask
    \/ EditTask
    \/ EndRequest
    \/ Return

SpecEdit == InitEdit /\ [][NextEdit]_vars

\* ------------------------------------------------- concurrent requests
MaxRequests == 2

Requests == 1..MaxRequests

NotStarted == [pc |-> "new"]

\* profile.identities / identity.projects
OwnedRows(store, kind, owner) ==
    IF kind = "set_identity"
    THEN {i.id : i \in SeqToSet(IdentitiesOf(store, owner))}
    ELSE IdentityProjects(store, owner)

ActiveRows(store, kind, owner) ==
    IF kind = "set_identity" THEN ActiveIds(store, owner) ELSE ActiveProjects(store, owner)

\* The flush of deactivate_identities / deactivate_projects: the unit of work
\* writes is_active = false for the rows the session had loaded as active; a
\* row it had loaded as inactive is not written.
flush_deactivation(store, kind, rows) ==
    IF kind = "set_identity"
    THEN [store EXCEPT !.identities =
            [k \in DOMAIN @ |-> IF @[k].id \in rows
                                THEN [@[k] EXCEPT !.is_active = FALSE] ELSE @[k]]]
    ELSE [store EXCEPT !.projects =
            [q \in DOMAIN @ |-> IF q \in rows
                                THEN [@[q] EXCEPT !.is_active = FALSE] ELSE @[q]]]

flush_activation_clears_others(store, kind, owner, target) ==
    IF kind = "set_identity"
    THEN SetActive(flush_deactivation(store, kind, OwnedRows(store, kind, owner)),
                   target, TRUE)
    ELSE SetProjectActive(flush_deactivation(store, kind, OwnedRows(store, kind, owner)),
                          target, TRUE)

\* identity.is_active = True / project.is_active = True, then commit: one row is written.
flush_activation(store, kind, owner, target) ==
    IF kind = "set_identity"
    THEN SetActive(store, target, TRUE)
    ELSE SetProjectActive(store, target, TRUE)

\* The request arrives: its session loads the owner and the owner's collection.
BeginRequest(r) ==
    /\ requests[r].pc = "new"
    /\ \E kind \in {"set_identity", "set_active_project"} :
         \E owner \in (IF kind = "set_identity" THEN db.profiles ELSE IdentityIds(db)) :
            \E target \in OwnedRows(db, kind, owner) :
                requests' = [requests EXCEPT ![r] =
                    [pc |-> "loaded", kind |-> kind, owner |-> owner, target |-> target,
                     seen_active |-> ActiveRows(db, kind, owner),
                     overlapped |-> {},
                     result |-> NoResult]]
    /\ UNCHANGED <<catalog, db, tx, loaded, call, pre, result, commits, cache>>

\* deactivate_identities / deactivate_projects of the request: flush and commit.
DeactivateStep(r) ==
    /\ requests[r].pc = "loaded"
    /\ db' = flush_deactivation(db, requests[r].kind, requests[r].seen_active)
    /\ tx' = db'
    /\ requests' = [requests EXCEPT ![r].pc = "deactivated"]
    /\ UNCHANGED <<catalog, loaded, call, pre, result, commits, cache>>

\* The second commit of set_identity / set_active_project.  overlapped: the
\* requests for the same owner that were between their two commits at that time.
ActivateStep(r) ==
    /\ requests[r].pc = "deactivated"
    /\ db' = flush_activation(db, requests[r].kind, requests[r].owner, requests[r].target)
    /\ tx' = db'
    /\ requests' = [requests EXCEPT
            ![r].pc = "done",
            ![r].overlapped =
                {o \in Requests \ {r} :
                    /\ requests[o].pc = "deactivated"
                    /\ requests[o].kind = requests[r].kind
                    /\ requests[o].owner = requests[r].owner},
            ![r].result = success_res("set", [active |-> requests[r].target])]
    /\ UNCHANGED <<catalog, loaded, call, pre, result, commits, cache>>

\* A registered profile with two identities; its first identity has two projects.
RaceStore ==
    [RegisteredStore EXCEPT !.projects =
        [p \in 1..2 |->
            [identity_id |-> 1, owner_id |-> 1, is_active |-> FALSE,
             status |-> NOT_STARTED, name_len |-> MinProjectNameLen + 1,
             start_date |-> 0, end_date |-> 0]]]

InitRace ==
    /\ catalog = <<1, 2>>
    /\ db = RaceStore
    /\ tx = RaceStore
    /\ loaded = ExpireAll(RaceStore)
    /\ call = NoCall
    /\ pre = [db |-> EmptyStore, tx |-> EmptyStore]
    /\ result = NoResult
    /\ commits = <<>>
    /\ requests = [r \in Requests |-> NotStarted]
    /\ cache = {}

NextRace ==
    \/ \E r \in Requests : BeginRequest(r)
    \/ \E r \in Requests : DeactivateStep(r)
    \/ \E r \in Requests : ActivateStep(r)

SpecRace == InitRace /\ [][NextRace]_vars

\* ------------------------------------- the steps of a task transaction
\* Task(**task_data); session.add(task); session.flush()
StageNewTask ==
    \E project_id \in DOMAIN tx.projects :
        /\ MaxOf(TaskIds(tx) \cup TaskIds(db)) < MaxTasks - 1
        /\ Do([op |-> "add_task", project_id |-> project_id],
              Outcome([tx EXCEPT !.tasks = @ \cup
                          {[id |-> MaxOf(TaskIds(tx) \cup TaskIds(db)) + 1,
                            project_id |-> project_id, is_complete |-> FALSE,
                            name_len |-> MinTaskNameLen + 1, due_date |-> 0]}],
                      db, <<>>, NoResult))

\* task.is_complete toggled; session.add(task); session.flush()
StageToggle ==
    \E task_id \in TaskIds(tx) :
        Do([op |-> "toggle_task", task_id |-> task_id],
           Outcome([tx EXCEPT !.tasks =
                       {IF t.id = task_id THEN [t EXCEPT !.is_complete = ~t.is_complete]
                        ELSE t : t \in @}],
                   db, <<>>, NoResult))

UpdateProjectStatus ==
    \E project_id \in ProjectArgs :
        Do([op |-> "update_project_status", project_id |-> project_id],
           stage_project_status(tx, db, loaded, tx.tasks, project_id))

\* the caller's session.commit()
Commit ==
    /\ call.op = "none"
    /\ Do([op |-> "commit"], Outcome(tx, tx, <<tx>>, NoResult))

\* the caller's session.rollback()
Rollback ==
    /\ call.op = "none"
    /\ Do([op |-> "rollback"], RolledBack(db, <<>>, NoResult))

NextStatus ==
    \/ StageNewTask
    \/ StageToggle
    \/ UpdateProjectStatus
    \/ Commit
    \/ Rollback
    \/ EndRequest
    \/ Return

SpecStatus == InitTasks /\ [][NextStatus]_vars

\* ------------------------------------------------- the memoized gateway
\* A manager call that reads through the request cache.
DoCached(c, out, cch) ==
    /\ call.op = "none"
    /\ call' = c
    /\ pre' = [db |-> db, tx |-> tx]
    /\ tx' = out.tx
    /\ db' = out.db
    /\ commits' = out.commits
    /\ result' = out.result
    /\ loaded' = IF out.commits # <<>> \/ out.rolled_back
                 THEN ExpireAll(out.tx) ELSE loaded
    /\ cache' = cch
    /\ UNCHANGED <<catalog, requests>>

\* get_profile_by_email / get_profile_by_id, for profiles that exist or existed
ReadItem ==
    \E field \in {"email", "id"}, value \in 1..MaxProfiles :
        LET r == read_item(tx, cache, field, value)
        IN  DoCached([op |-> "read_item", field |-> field, value |-> value],
                     Outcome(tx, db, <<>>, r.result), r.cache)

ReadItems ==
    \E profile_id \in 1..MaxProfiles :
        LET r == read_items_memoized(tx, cache, profile_id)
        IN  DoCached([op |-> "read_items", profile_id |-> profile_id],
                     Outcome(tx, db, <<>>, r.result), r.cache)

CreateItem ==
    \E profile_id \in 1..MaxProfiles, template_id \in SeqToSet(catalog) :
        /\ MaxOf(IdentityIds(tx) \cup IdentityIds(db)) < MaxProfiles + 1
        /\ Do([op |-> "create_item", profile_id |-> profile_id,
               template_id |-> template_id],
              create_item(tx, db, profile_id, template_id))

DeleteItem ==
    \E profile \in 1..MaxProfiles :
        Do([op |-> "delete_item", profile |-> profile],
           delete_item(tx, db, profile))

DeleteAccount ==
    \E profile \in ProfileArgs :
        LET r == delete_account(tx, db, cache, profile)
        IN  DoCached([op |-> "delete_account", profile |-> profile], r.out, r.cache)

\* MaxProfiles registered profiles, each with its first identity.
CacheStore ==
    [profiles |-> 1..MaxProfiles,
     identities |-> [p \in 1..MaxProfiles |->
                        initialise_profile_identities(<<1>>, p, p)[1]],
     projects |-> <<>>,
     tasks |-> {}]

InitCache ==
    /\ catalog = <<1>>
    /\ db = CacheStore
    /\ tx = CacheStore
    /\ loaded = ExpireAll(CacheStore)
    /\ call = NoCall
    /\ pre = [db |-> EmptyStore, tx |-> EmptyStore]
    /\ result = NoResult
    /\ commits = <<>>
    /\ requests = <<>>
    /\ cache = {}

NextCache ==
    \/ ReadItem
    \/ ReadItems
    \/ CreateItem
    \/ DeleteItem
    \/ DeleteAccount
    \/ EndRequest
    \/ Return

SpecCache == InitCache /\ [][NextCache]_vars

\* -------------------------------------------- creating and renaming projects
NextCreate ==
    \/ CreateProject
    \/ CreateProjectWithStatus
    \/ EditProjectName
    \/ EndRequest
    \/ Return

SpecCreate == InitTasks /\ [][NextCreate]_vars

\* ------------------------------------------------- the active project
\* What a project that was created earlier can look like today: overdue, due
\* tomorrow, due in two days, and completed with its end date still ahead.
SeededProjectStates ==
    {[end_date |-> -1, status |-> NOT_STARTED], [end_date |-> 1, status |-> NOT_STARTED],
     [end_date |-> 2, status |-> NOT_STARTED], [end_date |-> 2, status |-> COMPLETED]}

\* The registered profile with MaxProjectId projects, none active yet: all of its
\* first identity, but the last one, which is of either identity.  A completed
\* project has one task, complete.
ActiveStore(states, last_identity) ==
    [RegisteredStore EXCEPT
        !.projects = [p \in 1..MaxProjectId |->
                        [identity_id |-> IF p = MaxProjectId THEN last_identity ELSE 1,
                         owner_id |-> 1, is_active |-> FALSE,
                         status |-> states[p].status,
                         name_len |-> MinProjectNameLen + 1,
                         start_date |-> -1, end_date |-> states[p].end_date]],
        !.tasks = {[id |-> p, project_id |-> p, is_complete |-> TRUE,
                    name_len |-> MinTaskNameLen + 1, due_date |-> 0] :
                        p \in {q \in 1..MaxProjectId : states[q].status = COMPLETED}}]

InitActive ==
    /\ catalog = <<1, 2>>
    /\ \E states \in [1..MaxProjectId -> SeededProjectStates], last_identity \in {1, 2} :
          /\ db = ActiveStore(states, last_identity)
          /\ tx = db
          /\ loaded = ExpireAll(db)
    /\ call = NoCall
    /\ pre = [db |-> EmptyStore, tx |-> EmptyStore]
    /\ result = NoResult
    /\ commits = <<>>
    /\ requests = <<>>
    /\ cache = {}

NextActive ==
    \/ SetActiveProject
    \/ SetDefaultProject
    \/ GetActiveProject
    \/ DeactivateProjects
    \/ EndRequest
    \/ Return

SpecActive == InitActive /\ [][NextActive]_vars

Init ==
    /\ catalog \in {[k \in 1..n |-> k] : n \in 0..MaxTemplates}
    /\ db = EmptyStore
    /\ tx = EmptyStore
    /\ loaded = <<>>
    /\ call = NoCall
    /\ pre = [db |-> EmptyStore, tx |-> EmptyStore]
    /\ result = NoResult
    /\ commits = <<>>
    /\ requests = <<>>
    /\ cache = {}

Next ==
    \/ CreateProfile
    \/ SwapActiveIdentites
    \/ SetIdentity
    \/ SetIdentityInterrupted
    \/ SetDefaultIdentity
    \/ EndRequest
    \/ Return

Spec == Init /\ [][Next]_vars

\* ------------------------------------------------------------------ claims
IsActive(store, id) == IdentityById(store, id).is_active

OwnerOf(store, id) == IdentityById(store, id).profile_id

\* C1: every profile with at least one identity has at most one active identity,
\* whatever set_identity / swap_active_identites / set_default_identity calls were made.
C1_AtMostOneActive ==
    \A p \in db.profiles :
        IdentitiesOf(db, p) # <<>> => Cardinality(ActiveIds(db, p)) <= 1

\* C2: right after a successful create_task on project P, P's committed status is
\* the status derived from P's committed tasks, the new one included.
C2_StatusAfterCreate ==
    (call.op = "create_task" /\ result.success) =>
        db.projects[call.project_id].status = StatusOf(TasksOf(db, call.project_id))

\* C3: right after a successful delete_task of T in project P, T is gone and P's
\* committed status is the status derived from P's remaining tasks.
C3_StatusAfterDelete ==
    (call.op = "delete_task" /\ result.success) =>
        LET P == TaskById(pre.tx, call.task_id).project_id
        IN  /\ call.task_id \notin TaskIds(db)
            /\ db.projects[P].status = StatusOf(TasksOf(db, P))

\* C4: after every successful update_task_status the task's flag is flipped, no
\* other task changes, and the owning project's committed status is the status
\* derived from its tasks' flags (two tasks both complete: completed; one flipped
\* back: in_progress).
C4_StatusAfterToggle ==
    (call.op = "update_task_status" /\ result.success) =>
        LET before == TaskById(pre.tx, call.task_id)
            P == before.project_id
        IN  /\ db.tasks = (pre.tx.tasks \ {before})
                            \cup {[before EXCEPT !.is_complete = ~before.is_complete]}
            /\ db.projects[P].status = StatusOf(TasksOf(db, P))
            /\ (Cardinality(TasksOf(db, P)) = 2 /\ \A t \in TasksOf(db, P) : t.is_complete)
                  => db.projects[P].status = COMPLETED
            /\ (Cardinality(TasksOf(db, P)) = 2 /\ \E t \in TasksOf(db, P) : ~t.is_complete)
                  => db.projects[P].status = IN_PROGRESS

\* The second toggle of a two-task project: both tasks complete, project completed.
C4_Witness ==
    /\ call.op = "update_task_status" /\ result.success
    /\ LET P == TaskById(pre.tx, call.task_id).project_id
       IN  /\ Cardinality(TasksOf(db, P)) = 2
           /\ \A t \in TasksOf(db, P) : t.is_complete
           /\ pre.db.projects[P].status = IN_PROGRESS
           /\ db.projects[P].status = COMPLETED

\* The project update of the call cannot succeed: the project id resolves to no project.
ProjectUpdateFails ==
    \/ /\ call.op = "create_task"
       /\ MinTaskNameLen < call.name_len /\ call.name_len < MaxTaskNameLen
       /\ call.due_offset >= 0
       /\ call.project_id # None
       /\ call.project_id \notin DOMAIN pre.tx.projects
    \/ /\ call.op \in {"delete_task", "update_task_status"}
       /\ call.task_id \in TaskIds(pre.tx)
       /\ TaskById(pre.tx, call.task_id).project_id \notin DOMAIN pre.tx.projects

\* C5: when the project update fails inside create_task / delete_task /
\* update_task_status, the call fails and nothing of it is persisted or left
\* pending: the committed store and the session are as the committed store was.
C5_TaskChangeNotPersisted ==
    ProjectUpdateFails =>
        /\ ~result.success
        /\ commits = <<>>
        /\ db = pre.db
        /\ tx = pre.db

\* create_task reached update_project_status, which reported "Project not found...".
C5_Witness ==
    /\ call.op = "create_task"
    /\ ~call.fk_enforced
    /\ ProjectUpdateFails
    /\ result.msg = "Error creating task. Error updating project."
    /\ db = pre.db

\* C6: a successful create_profile persists one identity per template for the
\* new profile, in catalog order, and exactly the first of them is active.
C6_ProfileIdentitiesSeeded ==
    (call.op = "create_profile" /\ result.success) =>
        LET p == result.payload.profile
            ids == IdentitiesOf(db, p)
        IN  /\ p \in db.profiles /\ p \notin pre.db.profiles
            /\ Len(catalog) >= 1
            /\ Len(ids) = Len(catalog)
            /\ \A k \in DOMAIN ids :
                  /\ ids[k].template_id = catalog[k]
                  /\ ids[k].is_active = (k = 1)
            /\ Cardinality(ActiveIds(db, p)) = 1

C6_Witness ==
    /\ call.op = "create_profile" /\ result.success
    /\ Len(catalog) >= 2
    /\ Len(IdentitiesOf(db, result.payload.profile)) = Len(catalog)

\* C7: whenever create_profile fails after the Profile row was staged, the
\* transaction is rolled back: the session holds no uncommitted row.
C7_RolledBackOnFailure ==
    (call.op = "create_profile" /\ call.valid /\ call.theme_name_given /\ ~result.success) =>
        /\ tx.profiles = db.profiles
        /\ tx.identities = db.identities

\* A (active) and B (inactive) are identities of the profile the call names.
SwapOfActiveForInactive ==
    /\ call.op = "swap_active_identites"
    /\ call.current # None /\ call.new # None /\ call.profile # None
    /\ OwnerOf(pre.tx, call.current) = call.profile
    /\ OwnerOf(pre.tx, call.new) = call.profile
    /\ IsActive(pre.tx, call.current)
    /\ ~IsActive(pre.tx, call.new)

\* C8: swap_active_identites(profile, A, B) with A active and B inactive succeeds,
\* leaves A inactive and B active, commits exactly once (no committed store has
\* both or neither of them active) and changes no other identity.
C8_SwapCommittedTogether ==
    SwapOfActiveForInactive =>
        /\ result.success
        /\ ~IsActive(db, call.current) /\ IsActive(db, call.new)
        /\ Len(commits) = 1
        /\ \A k \in DOMAIN commits :
              IsActive(commits[k], call.current) # IsActive(commits[k], call.new)
        /\ \A k \in DOMAIN db.identities :
              db.identities[k].id \notin {call.current, call.new}
                  => db.identities[k] = pre.tx.identities[k]
        /\ db.profiles = pre.tx.profiles

C8_Witness ==
    /\ SwapOfActiveForInactive
    /\ result.success
    /\ IsActive(db, call.new)

\* C9: swap_active_identites with current omitted and a valid new identity
\* succeeds, deactivates the profile's active identity and activates new in one commit.
C9_SwapResolvesCurrent ==
    (/\ call.op = "swap_active_identites"
     /\ call.current = None /\ call.new # None /\ call.profile # None) =>
        /\ result.success
        /\ IsActive(db, call.new)
        /\ \A i \in ActiveIds(pre.tx, call.profile) : i # call.new => ~IsActive(db, i)
        /\ Len(commits) = 1

\* C10: set_default_identity on a profile with an active identity returns that
\* identity and writes nothing; with none active it activates the first identity
\* of the collection, and a second call then returns the same identity and
\* writes nothing.
C10_SetDefaultIdempotent ==
    (call.op = "set_default_identity" /\ call.profile # None
        /\ IdentitiesOf(pre.tx, call.profile) # <<>>) =>
        LET p == call.profile
            again == set_default_identity(tx, db, p)
        IN  /\ result.success
            /\ IF ActiveIds(pre.tx, p) # {}
               THEN /\ result.payload = get_active_identity(pre.tx, p).payload
                    /\ commits = <<>>
                    /\ tx = pre.tx /\ db = pre.db
               ELSE /\ result.payload.active_identity = Head(IdentitiesOf(pre.tx, p)).id
                    /\ tx = SetActive(pre.tx, result.payload.active_identity, TRUE)
                    /\ db = tx
            /\ again.result.success
            /\ again.result.payload = result.payload
            /\ again.commits = <<>>
            /\ again.tx = tx /\ again.db = db

\* The call found no active identity and activated the first one.
C10_Witness ==
    /\ call.op = "set_default_identity" /\ call.profile # None
    /\ Len(IdentitiesOf(pre.tx, call.profile)) >= 2
    /\ ActiveIds(pre.tx, call.profile) = {}
    /\ result.success
    /\ ActiveIds(db, call.profile) = {Head(IdentitiesOf(db, call.profile)).id}

\* C11: every identity has at most one active project, whatever create_project /
\* set_active_project / set_default_project / get_active_project /
\* deactivate_projects / delete_project calls were made.
C11_AtMostOneActiveProject ==
    \A i \in IdentityIds(db) : Cardinality(ActiveProjects(db, i)) <= 1

\* create_project with identity, owner, description and dates in order, on a store
\* that accepts the commit.
CreateProjectOtherwiseValid ==
    /\ call.op = "create_project"
    /\ call.identity_id # None /\ call.owner_id # None
    /\ call.desc_len <= MaxDescriptionLen
    /\ call.commit_ok

\* C12: create_project rejects a trimmed name of length 4, accepts lengths 5 and
\* 100, and rejects length 101.
C12_ProjectNameBoundary ==
    (CreateProjectOtherwiseValid /\ call.end_date >= call.start_date) =>
        /\ call.name_len = MinProjectNameLen - 1 => ~result.success
        /\ call.name_len = MinProjectNameLen => result.success
        /\ call.name_len = MaxProjectNameLen => result.success
        /\ call.name_len = MaxProjectNameLen + 1 => ~result.success

\* C13: create_project with otherwise valid input accepts end_date = start_date and
\* persists the project; it rejects end_date one day before start_date and
\* persists nothing.
C13_ZeroDurationAccepted ==
    (CreateProjectOtherwiseValid /\ project_name_ok(call.name_len)) =>
        /\ call.end_date = call.start_date =>
              /\ result.success
              /\ \E p \in DOMAIN db.projects \ DOMAIN pre.db.projects :
                    /\ db.projects[p].start_date = call.start_date
                    /\ db.projects[p].end_date = call.end_date
        /\ call.end_date = call.start_date - 1 =>
              /\ ~result.success
              /\ db = pre.db /\ tx = pre.tx /\ commits = <<>>

\* A zero-duration project has been created.
C13_Witness ==
    /\ CreateProjectOtherwiseValid /\ project_name_ok(call.name_len)
    /\ call.end_date = call.start_date
    /\ result.success
    /\ DOMAIN db.projects # DOMAIN pre.db.projects

\* C19: every manager call returns an envelope, and a failed call leaves no
\* uncommitted write in the session.
C19_EnvelopeAlwaysReturned ==
    call.op # "none" =>
        /\ IsEnvelope(result)
        /\ ~result.success => tx = db

\* The ids of the profile's identities for which some submitted entry carries a
\* name other than the identity's effective name before the call.
SubmittedChanges ==
    {call.form_data[k].identity_id : k \in
        {j \in DOMAIN call.form_data :
            /\ OwnerOf(pre.tx, call.form_data[j].identity_id) = call.profile_id
            /\ call.form_data[j].identity_custom_name #
                   EffectiveName(IdentityById(pre.tx, call.form_data[j].identity_id))}}

EntriesFor(id) == {k \in DOMAIN call.form_data : call.form_data[k].identity_id = id}

\* C14: the updated list of update_custom_names holds exactly the ids of the
\* profile's identities whose submitted name differs from the effective name
\* (custom name, or template name when unset); an identity whose entries are all
\* unchanged keeps its custom_name, and one submitted once with a new name gets it.
C14_UpdatedListsOnlyChanges ==
    call.op = "update_custom_names" =>
        /\ result.success
        /\ SeqToSet(result.payload.updated) = SubmittedChanges
        /\ \A k \in DOMAIN db.identities :
              LET before == pre.tx.identities[k]
                  after == db.identities[k]
              IN  /\ before.id \notin SubmittedChanges => after = before
                  /\ (before.id \in SubmittedChanges /\ Cardinality(EntriesFor(before.id)) = 1)
                        => \E j \in EntriesFor(before.id) :
                              after = [before EXCEPT !.custom_name =
                                          call.form_data[j].identity_custom_name]

\* One entry repeats the identity's current name, another entry renames a second
\* identity of the profile: only the second id is reported.
C14_Witness ==
    /\ call.op = "update_custom_names"
    /\ Len(call.form_data) = 2
    /\ \A k \in DOMAIN call.form_data :
          OwnerOf(pre.tx, call.form_data[k].identity_id) = call.profile_id
    /\ call.form_data[1].identity_custom_name =
           EffectiveName(IdentityById(pre.tx, call.form_data[1].identity_id))
    /\ call.form_data[2].identity_id # call.form_data[1].identity_id
    /\ result.payload.updated = <<call.form_data[2].identity_id>>

\* C15: update_custom_names changes no identity of another profile; an entry for
\* such an identity is skipped without error and is not reported, and the other
\* entries are committed in one transaction.
C15_ForeignEntriesSkipped ==
    call.op = "update_custom_names" =>
        /\ result.success
        /\ \A k \in DOMAIN db.identities :
              pre.tx.identities[k].profile_id # call.profile_id
                  => db.identities[k] = pre.tx.identities[k]
        /\ \A id \in SeqToSet(result.payload.updated) :
              OwnerOf(pre.tx, id) = call.profile_id
        /\ Len(commits) = 1
        /\ \A k \in DOMAIN call.form_data :
              LET e == call.form_data[k]
              IN  (OwnerOf(pre.tx, e.identity_id) = call.profile_id
                     /\ Cardinality(EntriesFor(e.identity_id)) = 1
                     /\ e.identity_custom_name # EffectiveName(IdentityById(pre.tx, e.identity_id)))
                  => IdentityById(commits[1], e.identity_id).custom_name = e.identity_custom_name

\* A batch with a foreign entry carrying a new name and an own entry that is applied.
C15_Witness ==
    /\ call.op = "update_custom_names"
    /\ Len(call.form_data) = 2
    /\ OwnerOf(pre.tx, call.form_data[1].identity_id) # call.profile_id
    /\ call.form_data[1].identity_custom_name #
           EffectiveName(IdentityById(pre.tx, call.form_data[1].identity_id))
    /\ result.payload.updated = <<call.form_data[2].identity_id>>
    /\ db # pre.db

\* set_identity got past its deactivate-all commit and its activation never committed.
InterruptedAfterDeactivation ==
    /\ call.op = "set_identity_interrupted"
    /\ call.profile # None
    /\ call.identity_id \in IdentityIds(pre.tx)

\* C16: when set_identity stops between its two commits the profile has no active
\* identity (never two), and the next set_default_identity on that profile
\* succeeds and leaves exactly one identity active.
C16_InterruptedSetIdentityRecovers ==
    InterruptedAfterDeactivation =>
        LET again == set_default_identity(tx, db, call.profile)
        IN  /\ ~result.success
            /\ Len(commits) = 1
            /\ ActiveIds(db, call.profile) = {}
            /\ again.result.success
            /\ Cardinality(ActiveIds(again.db, call.profile)) = 1
            /\ again.result.payload.active_identity \in ActiveIds(again.db, call.profile)

\* The profile had an active identity when the interrupted call started.
C16_Witness ==
    /\ InterruptedAfterDeactivation
    /\ ActiveIds(pre.db, call.profile) # {}
    /\ ActiveIds(db, call.profile) = {}

\* C20: after a successful set_identity(profile, identity_id) the identity with
\* that id is active and is the only active identity of the profile, whichever
\* profile owns the identity.
C20_TargetIsOnlyActive ==
    (call.op = "set_identity" /\ result.success) =>
        /\ IsActive(db, call.identity_id)
        /\ ActiveIds(db, call.profile) = {call.identity_id}

\* The call's input breaks a required-field, length or date-ordering rule of the
\* method (for the edit methods: of a project / task that exists).
InputViolatesRule ==
    \/ /\ call.op = "create_project"
       /\ \/ call.identity_id = None
          \/ call.owner_id = None
          \/ ~(MinProjectNameLen < call.name_len /\ call.name_len < MaxProjectNameLen)
          \/ call.desc_len > MaxDescriptionLen
          \/ call.end_date < call.start_date
    \/ /\ call.op = "edit_project"
       /\ call.project_id \in DOMAIN pre.tx.projects
       /\ LET project == pre.tx.projects[call.project_id]
          IN  \/ /\ call.name_len # 0
                 /\ ~(MinProjectNameLen <= call.name_len /\ call.name_len <= MaxProjectNameLen)
              \/ call.start_date = BadDate
              \/ call.end_date = BadDate
              \/ strptime(call.end_date, project.end_date)
                     < strptime(call.start_date, project.start_date)
    \/ /\ call.op = "create_task"
       /\ \/ ~(MinTaskNameLen < call.name_len /\ call.name_len < MaxTaskNameLen)
          \/ call.project_id = None
          \/ call.due_offset < 0
    \/ /\ call.op = "edit_task"
       /\ call.task_id \in TaskIds(pre.tx)
       /\ \/ /\ call.name_len # 0
             /\ ~(MinTaskNameLen < call.name_len /\ call.name_len < MaxTaskNameLen)
          \/ call.due_date = BadDate

\* C18: a call of create_project / edit_project / create_task / edit_task whose
\* input breaks a length, date-ordering or required-field rule fails and changes
\* nothing: no row is created, no field of a project or task changes, in the
\* committed store or in the session, whatever else the call supplied.
C18_ValidationFailureMutatesNothing ==
    InputViolatesRule =>
        /\ ~result.success
        /\ commits = <<>>
        /\ db = pre.db
        /\ tx = pre.tx

\* edit_project with a new, valid name and an end date before the start date.
C18_Witness ==
    /\ call.op = "edit_project"
    /\ call.project_id \in DOMAIN pre.tx.projects
    /\ call.name_len = MinProjectNameLen + 2
    /\ pre.tx.projects[call.project_id].name_len # call.name_len
    /\ call.start_date = NoDate
    /\ call.end_date = DateStr(-1)
    /\ ~result.success
    /\ db = pre.db /\ tx = pre.tx

\* Requests a and b asked for different targets of one owner, both are done, b had
\* committed its deactivation when a committed its activation, and no other
\* request has started.
RacedPair(a, b) ==
    /\ a # b
    /\ requests[a].pc = "done" /\ requests[b].pc = "done"
    /\ requests[a].kind = requests[b].kind
    /\ requests[a].owner = requests[b].owner
    /\ requests[a].target # requests[b].target
    /\ b \in requests[a].overlapped
    /\ \A o \in Requests \ {a, b} : requests[o].pc = "new"

\* C17: when two set_identity requests for one profile (or two set_active_project
\* requests for one identity) with different targets both commit their
\* deactivation before either commits its activation, both report success and
\* both targets end up active.
C17_RacingActivationsBothWin ==
    \A a \in Requests, b \in Requests :
        RacedPair(a, b) =>
            /\ requests[a].result.success /\ requests[b].result.success
            /\ {requests[a].target, requests[b].target}
                   \subseteq ActiveRows(db, requests[a].kind, requests[a].owner)

\* Two raced set_identity requests have left the profile with two active identities.
C17_Witness ==
    \E a \in Requests, b \in Requests :
        /\ RacedPair(a, b)
        /\ requests[a].kind = "set_identity"
        /\ Cardinality(ActiveIds(db, requests[a].owner)) = 2

\* C21: get_active_project(identity) returns the identity's active project when
\* there is one, and changes no flag; when the identity has projects and none is
\* active it activates the one set_default_project chooses and returns it, and
\* then exactly one project of the identity is active; when the identity has no
\* project it succeeds with a null active_project and changes nothing.
C21_GetActiveProject ==
    (call.op = "get_active_project" /\ call.identity # None) =>
        LET own == IdentityProjects(pre.tx, call.identity)
            active == ActiveProjects(pre.tx, call.identity)
        IN  /\ active # {} =>
                  /\ result.success
                  /\ result.payload.active_project \in active
                  /\ tx = pre.tx /\ db = pre.db /\ commits = <<>>
            /\ (own # {} /\ active = {}) =>
                  /\ result.success
                  /\ result.payload.active_project =
                        set_default_project(pre.tx, pre.db, call.identity)
                            .result.payload.active_project
                  /\ ActiveProjects(db, call.identity) = {result.payload.active_project}
                  /\ tx = db
            /\ own = {} =>
                  /\ result.success
                  /\ result.payload.active_project = None
                  /\ tx = pre.tx /\ db = pre.db /\ commits = <<>>

\* get_active_project has fallen back on set_default_project for an identity with
\* more than one project.
C21_Witness ==
    /\ call.op = "get_active_project" /\ call.identity # None
    /\ Cardinality(IdentityProjects(pre.tx, call.identity)) > 1
    /\ ActiveProjects(pre.tx, call.identity) = {}
    /\ result.success
    /\ Cardinality(ActiveProjects(db, call.identity)) = 1

\* C22: after a successful set_default_project(identity) the project it activated
\* has the smallest time_left of the identity's projects, and among the projects
\* with that time_left it is the first in collection order; with no project of
\* the identity the call fails and changes nothing.
C22_DefaultHasLeastTimeLeft ==
    (call.op = "set_default_project" /\ call.identity # None) =>
        LET own == IdentityProjects(pre.tx, call.identity)
        IN  /\ own = {} =>
                  /\ ~result.success
                  /\ tx = pre.tx /\ db = pre.db /\ commits = <<>>
            /\ result.success =>
                  LET p == result.payload.active_project
                  IN  /\ p \in own
                      /\ db.projects[p].is_active
                      /\ \A q \in DOMAIN db.projects \ {p} :
                            db.projects[q].is_active = pre.db.projects[q].is_active
                      /\ \A q \in own :
                            /\ time_left(pre.tx.projects[p]) <= time_left(pre.tx.projects[q])
                            /\ time_left(pre.tx.projects[p]) = time_left(pre.tx.projects[q])
                                  => p <= q

\* set_default_project has activated a project that is not the identity's first
\* one, because it has less time left.
C22_Witness ==
    /\ call.op = "set_default_project" /\ call.identity # None
    /\ result.success
    /\ \E q \in IdentityProjects(pre.tx, call.identity) :
          /\ q < result.payload.active_project
          /\ time_left(pre.tx.projects[result.payload.active_project])
                < time_left(pre.tx.projects[q])
    /\ db.projects[result.payload.active_project].is_active

\* C23: after a successful set_active_project(identity, project_id) the project
\* with that id is active and is the only active project of the identity,
\* whichever identity owns the project.
C23_ActivatedIsOnlyActive ==
    (call.op = "set_active_project" /\ result.success) =>
        /\ db.projects[call.project_id].is_active
        /\ ActiveProjects(db, call.identity) = {call.project_id}

\* C28: when set_active_project(identity, project_id) fails because project_id
\* resolves to no project, the is_active flags of the identity's projects are
\* what they were before the call.
C28_NotFoundLeavesFlags ==
    (/\ call.op = "set_active_project"
     /\ call.identity # None /\ call.project_id # None
     /\ call.project_id \notin DOMAIN pre.tx.projects) =>
        /\ ~result.success
        /\ \A p \in IdentityProjects(pre.db, call.identity) :
              /\ p \in DOMAIN db.projects
              /\ db.projects[p].is_active = pre.db.projects[p].is_active

\* The value supplied for a date field is absent, or is the date the project has.
DateUnchanged(value, current) ==
    value.kind = "none" \/ (value.kind = "date" /\ value.day = current)

\* C24: edit_project commits only if a field changes: when every supplied field is
\* empty or equal to the project's current value, nothing is staged or committed
\* and the call fails; and a call whose resulting end date is before its
\* resulting start date is rejected, also when only one of the dates is supplied.
C24_CommitsOnlyChanges ==
    (call.op = "edit_project" /\ call.project_id \in DOMAIN pre.tx.projects) =>
        LET project == pre.tx.projects[call.project_id]
        IN  /\ (/\ call.name_len \in {0, project.name_len}
                /\ DateUnchanged(call.start_date, project.start_date)
                /\ DateUnchanged(call.end_date, project.end_date)) =>
                  /\ ~result.success
                  /\ commits = <<>> /\ db = pre.db /\ tx = pre.tx
            /\ (/\ call.start_date.kind # "bad" /\ call.end_date.kind # "bad"
                /\ strptime(call.end_date, project.end_date)
                      < strptime(call.start_date, project.start_date)) =>
                  /\ ~result.success
                  /\ commits = <<>> /\ db = pre.db /\ tx = pre.tx

\* C25: a changed name of trimmed length n is accepted by edit_project if and
\* only if a name of length n is accepted by create_project, for the lengths at
\* and around the two limits and the empty name.
C25_SameNameRule ==
    (/\ call.op = "edit_project" /\ call.project_id \in DOMAIN pre.tx.projects
     /\ call.name_len # pre.tx.projects[call.project_id].name_len
     /\ call.start_date = NoDate /\ call.end_date = NoDate) =>
        LET project == pre.tx.projects[call.project_id]
            created == create_project(pre.tx, pre.db, call.name_len, 0,
                                      project.identity_id, project.owner_id,
                                      0, 0, NOT_STARTED, TRUE)
        IN  result.success <=> created.result.success

\* C27: immediately after a successful create_project, whatever arguments were
\* supplied, a status included, the new project has no task, status not_started
\* and is_active = false.
C27_CreatedNotStarted ==
    (call.op = "create_project" /\ result.success) =>
        \A p \in DOMAIN db.projects \ DOMAIN pre.db.projects :
            /\ TasksOf(db, p) = {}
            /\ db.projects[p].status = NOT_STARTED
            /\ ~db.projects[p].is_active

C29_MemoizedReadsAreCurrent ==
    /\ call.op = "read_item" => result = query_item(pre.tx, call.field, call.value)
    /\ call.op = "read_items" => result = query_items(pre.tx, call.profile_id)
    /\ \A e \in cache : e.res.success

\* C30: delete_account(profile) returns success if and only if the profile row,
\* and with it its identities and projects, is absent from the store after the
\* call, whichever reads came earlier in the request.
C30_DeleteAccountFaithful ==
    (call.op = "delete_account" /\ call.profile # None) =>
        (result.success <=>
            /\ call.profile \notin db.profiles
            /\ IdentitiesOf(db, call.profile) = <<>>
            /\ \A p \in DOMAIN db.projects : db.projects[p].owner_id # call.profile)

====
